---- MODULE Spec2Model ----
(***************************************************************************)
(* A model of mini_mc.py: the bounded command log, the local and remote    *)
(* checksum helpers, the two recursive "smart copy" walks, the two moves,  *)
(* the top-level directory comparison and the key loop of main.            *)
(*                                                                         *)
(* Paths are modelled as the strings the code builds: sequences of tokens, *)
(* a token being the separator "/" or one entry name.  A filesystem maps   *)
(* the canonical form of a path (its name segments) to a node.  A file's   *)
(* bytes are identified by its length, the identity of its first           *)
(* PARTIAL_MB megabytes (head) and the identity of the rest (tail); a      *)
(* digest is modelled as the identity of the bytes digested, i.e. the hash *)
(* is taken to be collision free.                                          *)
(***************************************************************************)
EXTENDS Integers, Sequences, FiniteSets, TLC

VARIABLES
    pc,        \* "idle" | "copy" | "done" | "raised": where the driver is
    op,        \* the operation running: [kind, dir, full]; main's variables in the key loop
    lfs,       \* the local filesystem:  canonical path -> node
    rfs,       \* the remote filesystem: canonical path -> node
    stack,     \* the directory frames of the recursive walk, innermost last
    cmd_log,   \* the module-level list cmd_log
    budget,    \* how many environment failures this run may still see
    last,      \* the record of the call of smart_copy_* made by the last step
    hist,      \* history: what the run has done so far (never read by the code)
    diff_info  \* the value main keeps of compare_directories' return

vars == <<pc, op, lfs, rfs, stack, cmd_log, budget, last, hist, diff_info>>

-----------------------------------------------------------------------------
(* Program constants.                                                      *)

PARTIAL_MB == 5
LARGE_FILE_MB == 10
CMD_LOG_MAX == 5
DEFAULT_CHUNK_SIZE == 65536
MiB == 1024 * 1024

(* Bounds of the model.                                                    *)

MaxFaults == 2      \* environment failures in one run
MaxAppends == 7     \* calls of log_command in one run of the log alone
MaxPartialMb == 6   \* the largest value of the parameter partial_mb
MaxDepth == 3       \* how many entries below its root a call can be
MaxDeletes == 1     \* confirmed deletions in one run of the key loop

-----------------------------------------------------------------------------
(* Paths.                                                                  *)

SEP == "/"
ROOT == <<SEP>>

\* The paths of the model's universe, in canonical form (name segments).
TOP == <<"a">>
U == { <<"a">>, <<"a", "x">>, <<"a", "Y">>, <<"a", "x", "x">> }
Names == {"a", "x", "Y"}

IsName(t) == t # SEP

\* str.rstrip('/')
RECURSIVE RStrip(_)
RStrip(p) ==
    IF p # <<>> /\ p[Len(p)] = SEP THEN RStrip(SubSeq(p, 1, Len(p) - 1)) ELSE p

\* os.path.join(parent, name) for a relative name
LocalJoin(p, n) ==
    IF p = <<>> \/ p[Len(p)] = SEP THEN p \o <<n>> ELSE p \o <<SEP, n>>

RemoteJoin_noStrip(p, n) == p \o <<SEP, n>>

\* the remote child path the code builds by hand
RemoteJoin(p, n) ==
    IF p = ROOT THEN <<SEP, n>> ELSE RStrip(p) \o <<SEP, n>>

\* the name segments of a path string: what the filesystem resolves it to
Canon(p) == SelectSeq(p, IsName)

Parent(c) == SubSeq(c, 1, Len(c) - 1)

IsPrefix(a, b) == Len(a) <= Len(b) /\ SubSeq(b, 1, Len(a)) = a

-----------------------------------------------------------------------------
(* Filesystems.                                                            *)

NoNode == [kind |-> "none", size |-> 0, head |-> 0, tail |-> 0]
DirNode == [kind |-> "dir", size |-> 0, head |-> 0, tail |-> 0]
FileNode(s, h, t) == [kind |-> "file", size |-> s, head |-> h, tail |-> t]

\* The file contents the model draws from: one file of exactly the threshold
\* size, and three larger ones: B0 and B1 agree on the first PARTIAL_MB
\* megabytes and differ after them, B2 differs from both in its first bytes.
SmallF == FileNode(LARGE_FILE_MB * MiB, 0, 0)
B0 == FileNode(LARGE_FILE_MB * MiB + 1, 0, 0)
B1 == FileNode(LARGE_FILE_MB * MiB + 1, 0, 1)
B2 == FileNode(LARGE_FILE_MB * MiB + 1, 1, 0)
FileNodes == {SmallF, B0, B1, B2}

\* the node a path resolves to; "/" itself is a directory
Node(fs, c) == IF c = <<>> THEN DirNode ELSE IF c \in U THEN fs[c] ELSE NoNode

IsFile(fs, c) == Node(fs, c).kind = "file"
IsDir(fs, c) == Node(fs, c).kind = "dir"
Exists(fs, c) == Node(fs, c).kind # "none"

\* every entry sits in a directory, and only the universe's inner paths
\* have children
WellFormed(fs) ==
    \A c \in U : fs[c].kind # "none" => IsDir(fs, Parent(c))

TreesOver(files) == { fs \in [U -> files \cup {NoNode, DirNode}] : WellFormed(fs) }

\* the trees with nothing below the top entry
FlatTrees == { fs \in TreesOver(FileNodes) : \A c \in U \ {TOP} : fs[c] = NoNode }

\* the names os.scandir / sftp.listdir_attr yield for a directory
Children(fs, c) == { n \in Names : Exists(fs, c \o <<n>>) }

\* the subtree rooted at c
Below(c) == { d \in U : IsPrefix(c, d) }

RemoveTree(fs, c) == [d \in U |-> IF IsPrefix(c, d) THEN NoNode ELSE fs[d]]

-----------------------------------------------------------------------------
(* log_command                                                             *)

Line(cmd, a, b) == [cmd |-> cmd, a |-> a, b |-> b]

log_command_dropsNewest(log, cmd) ==
    LET appended == Append(log, cmd)
    IN  IF Len(appended) > CMD_LOG_MAX THEN SubSeq(appended, 1, Len(appended) - 1) ELSE appended

\* cmd_log.append(cmd); if len(cmd_log) > CMD_LOG_MAX: cmd_log.pop(0)
log_command(log, cmd) ==
    LET appended == Append(log, cmd)
    IN  IF Len(appended) > CMD_LOG_MAX THEN Tail(appended) ELSE appended

LogAll_silent(log, cmds) == log

\* a sequence of log_command calls
RECURSIVE LogAll(_, _)
LogAll(log, cmds) ==
    IF cmds = <<>> THEN log ELSE LogAll(log_command(log, Head(cmds)), Tail(cmds))

-----------------------------------------------------------------------------
(* Checksums.                                                              *)

None == <<>>

Min(a, b) == IF a <= b THEN a ELSE b
Max(a, b) == IF a >= b THEN a ELSE b
CeilDiv(a, b) == (a + b - 1) \div b

\* The identity of the first n bytes of a file: their number, the identity
\* of the part of them within the first PARTIAL_MB megabytes, and the
\* identity of the part after those (0 when there is none).
Digest(algo, node, n) ==
    LET len == Min(n, node.size)
    IN  <<algo, len, node.head,
          IF len = node.size \/ len > PARTIAL_MB * MiB THEN node.tail ELSE 0>>

\* how many bytes the read loop of compute_local_checksum feeds the hash:
\* whole chunks, until end of file or until bytes_read >= max_bytes
LocalBytesRead(size, full, partial_mb, chunk_size) ==
    IF full THEN size
    ELSE Min(size, Max(1, CeilDiv(partial_mb * MiB, chunk_size)) * chunk_size)

\* a in {"ok", "fail"}: whether opening and reading the file raises OSError
compute_local_checksum(fs, path, algo, full, partial_mb, chunk_size, a) ==
    IF ~IsFile(fs, Canon(path)) THEN None
    ELSE IF a # "ok" THEN None
    ELSE Digest(algo, Node(fs, Canon(path)),
                LocalBytesRead(Node(fs, Canon(path)).size, full, partial_mb, chunk_size))

\* what a remote call hands back: a value, the lines it logged, and the
\* exception that left it ("none" when it returned)
Ret(val, logs, exc) == [val |-> val, logs |-> logs, exc |-> exc]

IsRaise(a) == a \in {"raiseOS", "raiseSSH"}
ExcOf(a) == IF a = "raiseOS" THEN "OSError" ELSE "SSHException"

\* a in {"ok", "fail", "raiseOS", "raiseSSH"}: the command runs and its exit
\* status answers, the exit status is non-zero whatever the path is, or
\* ssh.exec_command raises (nothing here catches it)
remote_file_exists(fs, path, a) ==
    LET logs == << Line("[ -f", path, <<>>) >>
    IN  IF IsRaise(a) THEN Ret(FALSE, logs, ExcOf(a))
        ELSE Ret(a = "ok" /\ IsFile(fs, Canon(path)), logs, "none")

\* the None remote_file_size returns, among the sizes
NoSize == -1

\* a in {"ok", "fail"}: stat's exit status and output
remote_file_size(fs, path, a) ==
    LET logs == << Line("stat -c %s", path, <<>>) >>
    IN  IF a = "ok" /\ Exists(fs, Canon(path))
        THEN Ret(Node(fs, Canon(path)).size, logs, "none")
        ELSE Ret(NoSize, logs, "none")

\* command_map.get(algo, 'md5sum')
SumCmd(algo) == IF algo \in {"md5", "sha256", "sha1"} THEN algo ELSE "md5"

\* a in {"ok", "noexist", "cmdfail", "raiseOS", "raiseSSH"}: all goes well,
\* the existence probe answers no, the digest command fails (non-zero exit,
\* no output, or an exception inside the try), or the existence probe raises
compute_remote_checksum(fs, path, algo, full, partial_mb, a) ==
    LET ex == remote_file_exists(fs, path,
                  IF IsRaise(a) THEN a ELSE IF a = "noexist" THEN "fail" ELSE "ok")
        cmd == IF full THEN Line(SumCmd(algo), path, <<>>)
               ELSE Line("dd bs=1M count=" \o ToString(partial_mb) \o " | " \o SumCmd(algo),
                         path, <<>>)
    IN  IF ex.exc # "none" THEN Ret(None, ex.logs, ex.exc)
        ELSE IF ~ex.val THEN Ret(None, ex.logs, "none")
        ELSE IF a = "cmdfail" THEN Ret(None, ex.logs \o <<cmd>>, "none")
        ELSE Ret(Digest(SumCmd(algo), Node(fs, Canon(path)),
                        IF full THEN Node(fs, Canon(path)).size ELSE partial_mb * MiB),
                 ex.logs \o <<cmd>>, "none")

-----------------------------------------------------------------------------
(* The copy of one file: the decision of smart_copy_local_to_remote and of *)
(* smart_copy_remote_to_local up to the transfer.                          *)

\* The environment's answers to the calls one invocation of smart_copy_*
\* makes; "ok" is the answer of a healthy environment.
AnswerValues ==
    [ stat   |-> {"ok", "ioerr", "raiseSSH"},
      exists |-> {"ok", "fail", "raiseOS", "raiseSSH"},
      size   |-> {"ok", "fail"},
      lp     |-> {"ok", "fail"},
      rp     |-> {"ok", "noexist", "cmdfail", "raiseOS", "raiseSSH"},
      lf     |-> {"ok", "fail"},
      rf     |-> {"ok", "noexist", "cmdfail", "raiseOS", "raiseSSH"},
      xfer   |-> {"ok", "fail"},
      mkdir  |-> {"ok", "fail"},
      list   |-> {"ok", "fail"},
      rm     |-> {"ok", "fail"} ]

AnswerFields == DOMAIN AnswerValues
AllOk == [f \in AnswerFields |-> "ok"]
\* the failures the calls named by fields can answer with
Deviations(fields) == UNION { { <<f, v>> : v \in AnswerValues[f] \ {"ok"} } : f \in fields }
NFaults(ans) == Cardinality({ f \in AnswerFields : ans[f] # "ok" })

\* the answers that hold at most k failures, all of them of calls in fields
RECURSIVE AnswersUpTo(_, _)
AnswersUpTo(fields, k) ==
    IF k = 0 THEN {AllOk}
    ELSE LET P == AnswersUpTo(fields, k - 1)
         IN  P \cup { [a EXCEPT ![d[1]] = d[2]] : a \in P, d \in Deviations(fields) }

\* the calls that can fail in the copy of a directory and in that of a file
DirCalls == {"mkdir", "list"}
FileCallsL2R == {"exists", "lp", "rp", "lf", "rf", "xfer"}
FileCallsR2L == {"size", "lp", "rp", "lf", "rf", "xfer"}

\* the threshold test with ">=" for ">"
IsLarge_inclusive(size) == size >= LARGE_FILE_MB * MiB

\* size_local > LARGE_FILE_MB * 1024 * 1024
IsLarge(size) == size > LARGE_FILE_MB * MiB

PartialMatch_always(a, b) == TRUE

\* csum_a and csum_b and csum_a == csum_b
PartialMatch(a, b) == a # None /\ b # None /\ a = b

\* the skip taken on the partial comparison alone
FullMatch_partialOnly(a, b) == TRUE

\* csum_loc_full == csum_rem_full
FullMatch(a, b) == a = b

\* what the decision part of a file copy yields: the decision ("skip",
\* "xfer", or "raise" with the exception), the lines logged on the way, the
\* checksum computations requested in order, and the answers consulted
Outcome(decision, exc, logs, cks, used) ==
    [decision |-> decision, exc |-> exc, logs |-> logs, cks |-> cks, used |-> used]

Ck(side, scope, val) == [side |-> side, scope |-> scope, val |-> val]

\* lines 264-286 of smart_copy_local_to_remote
SmartCopyFileL2R(lf, rf, local_path, remote_path, ans) ==
    LET size_local == Node(lf, Canon(local_path)).size
        ex == remote_file_exists(rf, remote_path, ans.exists)
        lp == compute_local_checksum(lf, local_path, "md5", FALSE, PARTIAL_MB,
                                     DEFAULT_CHUNK_SIZE, ans.lp)
        rp == compute_remote_checksum(rf, remote_path, "md5", FALSE, PARTIAL_MB, ans.rp)
        lfu == compute_local_checksum(lf, local_path, "md5", TRUE, PARTIAL_MB,
                                      DEFAULT_CHUNK_SIZE, ans.lf)
        rfu == compute_remote_checksum(rf, remote_path, "md5", TRUE, PARTIAL_MB, ans.rf)
        put == Line("PUT", local_path, remote_path)
        cksP == << Ck("local", "partial", lp), Ck("remote", "partial", rp.val) >>
        cksF == cksP \o << Ck("local", "full", lfu), Ck("remote", "full", rfu.val) >>
    IN  IF ex.exc # "none"
        THEN Outcome("raise", ex.exc, ex.logs, <<>>, {"exists"})
        ELSE IF ~(ex.val /\ IsLarge(size_local))
        THEN Outcome("xfer", "none", ex.logs \o <<put>>, <<>>, {"exists", "xfer"})
        ELSE IF rp.exc # "none"
        THEN Outcome("raise", rp.exc, ex.logs \o rp.logs,
                     << Ck("local", "partial", lp) >>, {"exists", "lp", "rp"})
        ELSE IF ~PartialMatch(lp, rp.val)
        THEN Outcome("xfer", "none", ex.logs \o rp.logs \o <<put>>, cksP,
                     {"exists", "lp", "rp", "xfer"})
        ELSE IF rfu.exc # "none"
        THEN Outcome("raise", rfu.exc, ex.logs \o rp.logs \o rfu.logs,
                     cksP \o << Ck("local", "full", lfu) >>,
                     {"exists", "lp", "rp", "lf", "rf"})
        ELSE IF FullMatch(lfu, rfu.val)
        THEN Outcome("skip", "none",
                     ex.logs \o rp.logs \o rfu.logs
                        \o << Line("SKIP identical", local_path, remote_path) >>,
                     cksF, {"exists", "lp", "rp", "lf", "rf"})
        ELSE Outcome("xfer", "none", ex.logs \o rp.logs \o rfu.logs \o <<put>>, cksF,
                     {"exists", "lp", "rp", "lf", "rf", "xfer"})

\* if size_remote and size_remote > LARGE_FILE_MB * 1024 * 1024
IsLargeRemote(size_remote) ==
    size_remote # NoSize /\ size_remote # 0 /\ size_remote > LARGE_FILE_MB * MiB

\* lines 329-345 of smart_copy_remote_to_local
SmartCopyFileR2L(lf, rf, remote_path, local_path, ans) ==
    LET sz == remote_file_size(rf, remote_path, ans.size)
        rp == compute_remote_checksum(rf, remote_path, "md5", FALSE, PARTIAL_MB, ans.rp)
        lp == compute_local_checksum(lf, local_path, "md5", FALSE, PARTIAL_MB,
                                     DEFAULT_CHUNK_SIZE, ans.lp)
        rfu == compute_remote_checksum(rf, remote_path, "md5", TRUE, PARTIAL_MB, ans.rf)
        lfu == compute_local_checksum(lf, local_path, "md5", TRUE, PARTIAL_MB,
                                      DEFAULT_CHUNK_SIZE, ans.lf)
        get == Line("GET", remote_path, local_path)
        cksP == << Ck("remote", "partial", rp.val), Ck("local", "partial", lp) >>
        cksF == cksP \o << Ck("remote", "full", rfu.val), Ck("local", "full", lfu) >>
    IN  IF ~Exists(lf, Canon(local_path))
        THEN Outcome("xfer", "none", <<get>>, <<>>, {"xfer"})
        ELSE IF ~IsLargeRemote(sz.val)
        THEN Outcome("xfer", "none", sz.logs \o <<get>>, <<>>, {"size", "xfer"})
        ELSE IF rp.exc # "none"
        THEN Outcome("raise", rp.exc, sz.logs \o rp.logs, <<>>, {"size", "rp"})
        ELSE IF ~PartialMatch(rp.val, lp)
        THEN Outcome("xfer", "none", sz.logs \o rp.logs \o <<get>>, cksP,
                     {"size", "rp", "lp", "xfer"})
        ELSE IF rfu.exc # "none"
        THEN Outcome("raise", rfu.exc, sz.logs \o rp.logs \o rfu.logs, cksP,
                     {"size", "rp", "lp", "rf"})
        ELSE IF FullMatch(rfu.val, lfu)
        THEN Outcome("skip", "none",
                     sz.logs \o rp.logs \o rfu.logs
                        \o << Line("SKIP identical", remote_path, local_path) >>,
                     cksF, {"size", "rp", "lp", "rf", "lf"})
        ELSE Outcome("xfer", "none", sz.logs \o rp.logs \o rfu.logs \o <<get>>, cksF,
                     {"size", "rp", "lp", "rf", "lf", "xfer"})

-----------------------------------------------------------------------------
(* The recursive walk.  A frame is one running "for entry in ..." loop: the *)
(* directory pair it walks and the entries it has not reached yet.  The     *)
(* bottom frame is main's: the panel directories and the selected entry.    *)

Frame(src, dst, todo, ofMain) ==
    [src |-> src, dst |-> dst, todo |-> todo, main |-> ofMain]

Ev(ev, path, ok) == [ev |-> ev, path |-> path, ok |-> ok]

Fehler == Line("Fehler", <<>>, <<>>)

\* the unused answers are the healthy ones: one successor per behaviour
Normal(ans, used) == \A f \in AnswerFields \ used : ans[f] = "ok"

\* sftp.put / sftp.get can write: the parent is a directory, the path is not
CanWrite(fs, c) == c \in U /\ IsDir(fs, Parent(c)) /\ ~IsDir(fs, c)

\* mkdir can create: the parent is a directory, the path is free
CanMkdir(fs, c) == c \in U /\ IsDir(fs, Parent(c)) /\ ~Exists(fs, c)

\* a loop with no entry left ends and its call returns to the caller's loop
RECURSIVE Settle(_)
Settle(frames) ==
    IF Len(frames) > 1 /\ frames[Len(frames)].todo = {}
    THEN Settle(SubSeq(frames, 1, Len(frames) - 1))
    ELSE frames

\* where control goes: on in the walk with these frames, or out of the copy
Goes(to, frames) == [pc |-> to, stack |-> Settle(frames)]

\* An exception leaving a call of smart_copy_local_to_remote: nothing on the
\* way up catches it.
UnwindL2R(exc, rest) == Goes("raised", <<>>)

\* An exception leaving a call of smart_copy_remote_to_local: the caller's
\* loop runs inside "try: ... except IOError: pass" (IOError is OSError), so
\* the innermost directory frame swallows an OSError and returns; main's
\* frame catches nothing.
UnwindR2L(exc, rest) ==
    IF exc = "OSError" /\ ~rest[Len(rest)].main
    THEN Goes("copy", SubSeq(rest, 1, Len(rest) - 1))
    ELSE Goes("raised", <<>>)

\* put / get with no handler around it: the failure leaves the copy
TransferExcept_propagates(rest) == [go |-> Goes("raised", <<>>), logs |-> <<>>]

\* "except Exception as e: log_command(f'Fehler: {e}')" around put / get:
\* the failure is logged and the call returns to its caller's loop
TransferExcept(rest) == [go |-> Goes("copy", rest), logs |-> <<Fehler>>]

\* smart_copy_local_to_remote(sftp, ssh, local_path, remote_path), called
\* from a loop whose other frames are rest
CallL2R(local_path, remote_path, rest, ans) ==
    LET s == Canon(local_path)
        d == Canon(remote_path)
    IN  IF IsDir(lfs, s)
        THEN LET made == ans.mkdir = "ok" /\ CanMkdir(rfs, d)
                 rfs1 == IF made THEN [rfs EXCEPT ![d] = DirNode] ELSE rfs
                 listed == ans.list = "ok"
                 go == IF listed
                       THEN Goes("copy", Append(rest, Frame(local_path, remote_path,
                                                      Children(lfs, s), FALSE)))
                       ELSE UnwindL2R("OSError", rest)
             IN  /\ Normal(ans, (IF CanMkdir(rfs, d) THEN {"mkdir"} ELSE {}) \cup {"list"})
                 /\ rfs' = rfs1
                 /\ lfs' = lfs
                 /\ cmd_log' = cmd_log
                 /\ pc' = go.pc
                 /\ stack' = go.stack
                 /\ last' = [kind |-> "dir", dir |-> "l2r", src |-> local_path,
                             dst |-> remote_path, tried |-> TRUE, made |-> made]
                 /\ hist' = [hist EXCEPT !.events = @ \o
                               << Ev("mkdir", s, IsDir(rfs1, d)), Ev("list", s, listed) >>
                               \o (IF listed THEN <<>> ELSE << Ev("raise", s, FALSE) >>)]
        ELSE LET out == SmartCopyFileL2R(lfs, rfs, local_path, remote_path, ans)
                 sent == out.decision = "xfer" /\ ans.xfer = "ok" /\ CanWrite(rfs, d)
                 exc == TransferExcept(rest)
                 go == IF out.decision = "raise" THEN UnwindL2R(out.exc, rest)
                       ELSE IF out.decision = "xfer" /\ ~sent THEN exc.go
                       ELSE Goes("copy", rest)
                 logs == IF out.decision = "xfer" /\ ~sent
                         THEN out.logs \o exc.logs ELSE out.logs
             IN  /\ Normal(ans, out.used)
                 /\ rfs' = IF sent THEN [rfs EXCEPT ![d] = Node(lfs, s)] ELSE rfs
                 /\ lfs' = lfs
                 /\ cmd_log' = LogAll(cmd_log, logs)
                 /\ pc' = go.pc
                 /\ stack' = go.stack
                 /\ last' = [kind |-> "file", dir |-> "l2r", src |-> local_path,
                             dst |-> remote_path, srcNode |-> Node(lfs, s),
                             dstNode |-> Node(rfs, d), ans |-> ans, out |-> out,
                             sent |-> sent, logs |-> logs]
                 /\ hist' = [hist EXCEPT !.events = Append(@,
                               IF out.decision = "raise"
                               THEN Ev("raise", s, go.pc # "raised")
                               ELSE Ev(out.decision, s, out.decision = "skip" \/ sent))]

\* smart_copy_remote_to_local(sftp, ssh, remote_path, local_path)
CallR2L(remote_path, local_path, rest, ans) ==
    LET s == Canon(remote_path)
        d == Canon(local_path)
    IN  IF ans.stat = "raiseSSH"
        THEN LET go == UnwindR2L("SSHException", rest)
             IN  /\ Normal(ans, {"stat"})
                 /\ UNCHANGED <<lfs, rfs, cmd_log>>
                 /\ pc' = go.pc
                 /\ stack' = go.stack
                 /\ last' = [kind |-> "raise", dir |-> "r2l", src |-> remote_path,
                             dst |-> local_path]
                 /\ hist' = [hist EXCEPT !.events = Append(@, Ev("raise", s, FALSE))]
        ELSE IF ans.stat = "ioerr" \/ ~Exists(rfs, s)
        THEN /\ Normal(ans, {"stat"})
             /\ UNCHANGED <<lfs, rfs, cmd_log>>
             /\ pc' = "copy"
             /\ stack' = Settle(rest)
             /\ last' = [kind |-> "noent", dir |-> "r2l", src |-> remote_path,
                         dst |-> local_path]
             /\ hist' = [hist EXCEPT !.events = Append(@, Ev("noent", s, FALSE))]
        ELSE IF IsDir(rfs, s)
        THEN LET tried == ~Exists(lfs, d)
                 made == tried /\ ans.mkdir = "ok" /\ CanMkdir(lfs, d)
                 lfs1 == IF made THEN [lfs EXCEPT ![d] = DirNode] ELSE lfs
                 listed == ans.list = "ok"
             IN  /\ Normal(ans, (IF tried /\ CanMkdir(lfs, d) THEN {"mkdir"} ELSE {})
                                   \cup {"stat", "list"})
                 /\ lfs' = lfs1
                 /\ rfs' = rfs
                 /\ cmd_log' = cmd_log
                 /\ pc' = "copy"
                 /\ stack' = Settle(IF listed
                                    THEN Append(rest, Frame(remote_path, local_path,
                                                            Children(rfs, s), FALSE))
                                    ELSE rest)
                 /\ last' = [kind |-> "dir", dir |-> "r2l", src |-> remote_path,
                             dst |-> local_path, tried |-> tried, made |-> made]
                 /\ hist' = [hist EXCEPT !.events = @ \o
                               (IF tried THEN << Ev("mkdir", s, made) >> ELSE <<>>)
                               \o << Ev("list", s, listed) >>]
        ELSE LET out == SmartCopyFileR2L(lfs, rfs, remote_path, local_path, ans)
                 sent == out.decision = "xfer" /\ ans.xfer = "ok" /\ CanWrite(lfs, d)
                 exc == TransferExcept(rest)
                 go == IF out.decision = "raise" THEN UnwindR2L(out.exc, rest)
                       ELSE IF out.decision = "xfer" /\ ~sent THEN exc.go
                       ELSE Goes("copy", rest)
                 logs == IF out.decision = "xfer" /\ ~sent
                         THEN out.logs \o exc.logs ELSE out.logs
             IN  /\ Normal(ans, out.used \cup {"stat"})
                 /\ lfs' = IF sent THEN [lfs EXCEPT ![d] = Node(rfs, s)] ELSE lfs
                 /\ rfs' = rfs
                 /\ cmd_log' = LogAll(cmd_log, logs)
                 /\ pc' = go.pc
                 /\ stack' = go.stack
                 /\ last' = [kind |-> "file", dir |-> "r2l", src |-> remote_path,
                             dst |-> local_path, srcNode |-> Node(rfs, s),
                             dstNode |-> Node(lfs, d), ans |-> ans, out |-> out,
                             sent |-> sent, logs |-> logs]
                 /\ hist' = [hist EXCEPT !.events = Append(@,
                               IF out.decision = "raise"
                               THEN Ev("raise", s, go.pc # "raised")
                               ELSE Ev(out.decision, s, out.decision = "skip" \/ sent))]

-----------------------------------------------------------------------------
(* The driver: main's key handlers for copy and move, and the loops.       *)

NoLast == [kind |-> "none"]
NoDiff == [set |-> FALSE]

OpCopy(dir) == [kind |-> "copy", dir |-> dir]
OpMove(dir) == [kind |-> "move", dir |-> dir]

\* the parts of the state a copy or a move starts from
Begin(o, src, dst) ==
    /\ pc = "idle"
    /\ pc' = "copy"
    /\ op' = o
    /\ stack' = << Frame(src, dst, {"a"}, TRUE) >>
    /\ hist' = [events |-> <<>>, lfs0 |-> lfs, rfs0 |-> rfs]
    /\ UNCHANGED <<lfs, rfs, cmd_log, budget, last, diff_info>>

\* key 'c' in the local panel, the entry "a" selected (lines 635-644)
KeyCopyLocal == Exists(lfs, TOP) /\ Begin(OpCopy("l2r"), ROOT, ROOT)

\* key 'v' in the local panel (lines 645-654)
KeyMoveLocal == Exists(lfs, TOP) /\ Begin(OpMove("l2r"), ROOT, ROOT)

\* key 'c' in the remote panel (lines 688-697)
KeyCopyRemote == Exists(rfs, TOP) /\ Begin(OpCopy("r2l"), ROOT, ROOT)

\* key 'v' in the remote panel (lines 698-707)
KeyMoveRemote == Exists(rfs, TOP) /\ Begin(OpMove("r2l"), ROOT, ROOT)

TopFrame == stack[Len(stack)]

\* the frames once the top one has handed out entry n
Taken(n) == [stack EXCEPT ![Len(stack)].todo = @ \ {n}]

\* the calls the copy of the source entry at path can make
CallsOf(path) ==
    IF op.dir = "l2r"
    THEN IF IsDir(lfs, Canon(path)) THEN DirCalls ELSE FileCallsL2R
    ELSE {"stat"} \cup (IF IsDir(rfs, Canon(path)) THEN DirCalls ELSE FileCallsR2L)

\* one iteration of the innermost loop: the call on the next entry, in
\* whatever order the directory enumerates its entries
Step ==
    /\ pc = "copy"
    /\ TopFrame.todo # {}
    /\ \E n \in TopFrame.todo :
       \E ans \in AnswersUpTo(CallsOf(TopFrame.src \o <<n>>), budget) :
          /\ IF op.dir = "l2r"
             THEN CallL2R(LocalJoin(TopFrame.src, n), RemoteJoin(TopFrame.dst, n),
                          Taken(n), ans)
             ELSE CallR2L(RemoteJoin(TopFrame.src, n), LocalJoin(TopFrame.dst, n),
                          Taken(n), ans)
          /\ budget' = budget - NFaults(ans)
    /\ UNCHANGED <<op, diff_info>>

\* the removal reached on an exception of the copy as well
CopyReturned_orRaised ==
    \/ pc = "raised"
    \/ pc = "copy" /\ Len(stack) = 1 /\ stack[Len(stack)].todo = {}

\* the call main (or the move) made has returned
CopyReturned == pc = "copy" /\ Len(stack) = 1 /\ TopFrame.todo = {}

\* copy_file_local_to_remote / copy_file_remote_to_local return to main
FinishCopy ==
    /\ CopyReturned
    /\ op.kind = "copy"
    /\ pc' = "done"
    /\ stack' = <<>>
    /\ UNCHANGED <<op, lfs, rfs, cmd_log, budget, last, hist, diff_info>>

\* remove_remote_dir_recursive, as the move uses it: a in {"ok", "fail"},
\* what a recursive removal that met a failure can leave: the directory
\* itself, and below it any part of what was there
PartialRemovals(fs, c) ==
    { g \in { [d \in U |-> IF d \in K THEN fs[d] ELSE NoNode] : K \in SUBSET U } :
        /\ WellFormed(g)
        /\ g[c] = fs[c]
        /\ \A d \in U \ Below(c) : g[d] = fs[d] }

\* a in {"ok", "fail"}: every call succeeds and the tree is gone, or some
\* call raises, which the except clause of that level swallows
remove_remote_dir_recursive(fs, c, a) ==
    IF a = "ok" THEN { RemoveTree(fs, c) } ELSE PartialRemovals(fs, c)

\* the part of move_file_local_to_remote after the copy (lines 364-374)
FinishMoveL2R ==
    /\ CopyReturned
    /\ op = OpMove("l2r")
    /\ \E a \in AnswerValues.rm :
          LET local_path == LocalJoin(ROOT, "a")
              c == Canon(local_path)
              ok == a = "ok" /\ Exists(lfs, c)
              isfile == IsFile(lfs, c)
          IN  /\ (IF a = "ok" THEN 0 ELSE 1) <= budget
              /\ budget' = budget - (IF a = "ok" THEN 0 ELSE 1)
              /\ lfs' \in IF ok THEN { RemoveTree(lfs, c) }
                         ELSE IF IsDir(lfs, c) THEN PartialRemovals(lfs, c) ELSE { lfs }
              /\ cmd_log' = log_command(cmd_log,
                     IF ~ok THEN Line("Fehler bei rm local", <<>>, <<>>)
                     ELSE IF isfile THEN Line("RM LOCAL", local_path, <<>>)
                     ELSE Line("RM LOCAL DIR", local_path, <<>>))
              /\ hist' = [hist EXCEPT !.events =
                            Append(@, Ev(IF isfile THEN "remove" ELSE "rmtree", c, ok))]
    /\ pc' = "done"
    /\ stack' = <<>>
    /\ UNCHANGED <<op, rfs, last, diff_info>>

\* the part of move_file_remote_to_local after the copy (lines 380-392)
FinishMoveR2L ==
    /\ CopyReturned
    /\ op = OpMove("r2l")
    /\ \E a \in AnswerValues.rm, st \in {"ok", "ioerr"} :
          LET remote_path == RemoteJoin(ROOT, "a")
              c == Canon(remote_path)
              stat_ok == st = "ok" /\ Exists(rfs, c)
              is_dir == IsDir(rfs, c)
              n == (IF a = "ok" THEN 0 ELSE 1) + (IF st = "ok" THEN 0 ELSE 1)
          IN  /\ n <= budget
              /\ budget' = budget - n
              /\ ~stat_ok => a = "ok"
              /\ rfs' \in IF ~stat_ok THEN { rfs }
                          ELSE IF is_dir THEN remove_remote_dir_recursive(rfs, c, a)
                          ELSE IF a = "ok" THEN { RemoveTree(rfs, c) } ELSE { rfs }
              /\ cmd_log' = log_command(cmd_log,
                     IF ~stat_ok THEN Line("Fehler bei rm remote", <<>>, <<>>)
                     ELSE IF is_dir THEN Line("RM REMOTE DIR", remote_path, <<>>)
                     ELSE IF a = "ok" THEN Line("RM REMOTE", remote_path, <<>>)
                     ELSE Line("Fehler bei rm remote", <<>>, <<>>))
              /\ hist' = [hist EXCEPT !.events =
                            Append(@, Ev(IF ~stat_ok THEN "stat"
                                         ELSE IF is_dir THEN "rmtree" ELSE "remove",
                                         c, stat_ok /\ a = "ok"))]
    /\ pc' = "done"
    /\ stack' = <<>>
    /\ UNCHANGED <<op, lfs, last, diff_info>>

-----------------------------------------------------------------------------
(* The copies and moves main starts, on any pair of trees.                 *)

Idle ==
    /\ pc = "idle"
    /\ op = [kind |-> "none", dir |-> "none"]
    /\ stack = <<>>
    /\ cmd_log = <<>>
    /\ last = NoLast
    /\ hist = [events |-> <<>>, lfs0 |-> lfs, rfs0 |-> rfs]
    /\ diff_info = NoDiff

\* Trees of large files of one content (every file meets an identical one,
\* a directory or nothing), or a single entry of any content on each side
\* (a file meets one that differs within or after its first megabytes too).
Init ==
    /\ \/ lfs \in TreesOver({B0}) /\ rfs \in TreesOver({B0})
       \/ lfs \in FlatTrees /\ rfs \in FlatTrees
    /\ budget = MaxFaults
    /\ Idle

Next ==
    \/ KeyCopyLocal
    \/ KeyMoveLocal
    \/ KeyCopyRemote
    \/ KeyMoveRemote
    \/ Step
    \/ FinishCopy
    \/ FinishMoveL2R
    \/ FinishMoveR2L

Spec == Init /\ [][Next]_vars

-----------------------------------------------------------------------------
(* The command log on its own: calls of log_command from an empty log.     *)

NoFs == [c \in U |-> NoNode]

\* the lines the helpers hand to log_command
LogLines ==
    { Line("[ -f", <<SEP, "a">>, <<>>),
      Line("PUT", <<SEP, "a">>, <<SEP, "a">>),
      Fehler }

InitLog ==
    /\ lfs = NoFs
    /\ rfs = NoFs
    /\ budget = 0
    /\ Idle

\* one call log_command(cmd); hist.events keeps every line ever appended
LogCommand ==
    /\ pc = "idle"
    /\ Len(hist.events) < MaxAppends
    /\ \E cmd \in LogLines :
          /\ cmd_log' = log_command(cmd_log, cmd)
          /\ hist' = [hist EXCEPT !.events = Append(@, cmd)]
    /\ UNCHANGED <<pc, op, lfs, rfs, stack, budget, last, diff_info>>

NextLog == LogCommand

SpecLog == InitLog /\ [][NextLog]_vars

-----------------------------------------------------------------------------
(* Listings and compare_directories.                                       *)

DotDot == ".."

Entry(n, d) == [name |-> n, is_dir |-> d]

\* str.lower() on the names of the universe
Lower(n) == IF n = "Y" THEN "y" ELSE n

\* the order of the lower-cased names as strings
Ord == [a |-> 1, x |-> 2, y |-> 3]

\* the order of the names as strings, byte by byte
AsciiOrd == [Y |-> 1, a |-> 2, x |-> 3]

KeyLess_caseSensitive(e1, e2) ==
    IF e1.is_dir # e2.is_dir THEN e1.is_dir
    ELSE AsciiOrd[e1.name] < AsciiOrd[e2.name]

\* (not is_dir, name.lower()) of e1 is less than that of e2
KeyLess(e1, e2) ==
    IF e1.is_dir # e2.is_dir THEN e1.is_dir
    ELSE Ord[Lower(e1.name)] < Ord[Lower(e2.name)]

\* the orders in which a set can be enumerated
Perms(S) ==
    { s \in [1..Cardinality(S) -> S] :
        \A i, j \in 1..Cardinality(S) : i # j => s[i] # s[j] }

\* items.sort(key=...): the scan comes in any order and the sort is stable
SortedItems(items) ==
    { s \in Perms(items) : \A i, j \in 1..Len(s) : i < j => ~KeyLess(s[j], s[i]) }

\* the entries os.scandir / sftp.listdir_attr yield for a directory
Scan(fs, c) == { Entry(n, IsDir(fs, c \o <<n>>)) : n \in Children(fs, c) }

\* a in {"ok", "fail"}: whether the scan raises OSError
list_local_dir(fs, path, a) ==
    IF a # "ok" \/ ~IsDir(fs, Canon(path)) THEN { <<>> }
    ELSE { IF path \notin {ROOT, <<>>} THEN <<Entry(DotDot, TRUE)>> \o s ELSE s :
             s \in SortedItems(Scan(fs, Canon(path))) }

\* a in {"ok", "fail"}: whether listdir_attr raises IOError
list_remote_dir(fs, path, a) ==
    IF a # "ok" \/ ~IsDir(fs, Canon(path)) THEN { <<>> }
    ELSE { IF path \notin {ROOT, <<>>} THEN <<Entry(DotDot, TRUE)>> \o s ELSE s :
             s \in SortedItems(Scan(fs, Canon(path))) }

\* [n for (n, d) in entries if not d and n != '..'], as a set
FileNames(entries) ==
    { entries[i].name :
        i \in { j \in 1..Len(entries) : ~entries[j].is_dir /\ entries[j].name # DotDot } }

OnlyLocal_all(set_local, common) == set_local

\* only_local = set_local - common
OnlyLocal(set_local, common) == set_local \ common

\* only_remote = set_remote - common
OnlyRemote(set_remote, common) == set_remote \ common

Classify_noneEqual(csum_loc, csum_rem) ==
    IF csum_loc = csum_rem THEN "same" ELSE "different"

\* the set the loop body adds fname to
Classify(csum_loc, csum_rem) ==
    IF csum_loc = None \/ csum_rem = None THEN "different"
    ELSE IF csum_loc = csum_rem THEN "same" ELSE "different"

NoneYet == [different |-> {}, same |-> {}, logs |-> <<>>, exc |-> "none", seen |-> {}]

\* for fname in common, in the order the set hands the names out; an
\* exception of compute_remote_checksum ends the loop
RECURSIVE CompareLoop(_, _, _, _, _, _, _, _, _, _)
CompareLoop(lf, rf, local_path, remote_path, algo, full, order, la, ra, acc) ==
    IF order = <<>> THEN acc
    ELSE LET fname == Head(order)
             local_fp == LocalJoin(local_path, fname)
             remote_fp == RemoteJoin(remote_path, fname)
             csum_loc == compute_local_checksum(lf, local_fp, algo, full, PARTIAL_MB,
                                                DEFAULT_CHUNK_SIZE, la[fname])
             rem == compute_remote_checksum(rf, remote_fp, algo, full, PARTIAL_MB, ra[fname])
             sofar == [acc EXCEPT !.logs = @ \o rem.logs, !.seen = @ \cup {fname}]
         IN  IF rem.exc # "none" THEN [sofar EXCEPT !.exc = rem.exc]
             ELSE CompareLoop(lf, rf, local_path, remote_path, algo, full, Tail(order), la, ra,
                              [sofar EXCEPT ![Classify(csum_loc, rem.val)] = @ \cup {fname}])

\* compare_directories on the two listings it obtained
compare_directories(lf, rf, local_path, remote_path, algo, full, local_entries, remote_entries, order, la, ra) ==
    LET set_local == FileNames(local_entries)
        set_remote == FileNames(remote_entries)
        common == set_local \cap set_remote
        loop == CompareLoop(lf, rf, local_path, remote_path, algo, full, order, la, ra, NoneYet)
    IN  [ exc |-> loop.exc, logs |-> loop.logs, seen |-> loop.seen,
          only_local |-> OnlyLocal(set_local, common),
          only_remote |-> OnlyRemote(set_remote, common),
          different |-> loop.different,
          same |-> loop.same ]

\* the directories the panels can show
PanelPaths == { ROOT, <<SEP, "a">> }

LocalSumAnswers == {"ok", "fail"}
RemoteSumAnswers == {"ok", "noexist", "cmdfail", "raiseOS", "raiseSSH"}

\* how many of the answers are failures
DiffFaults(ll, rl, la, ra) ==
    (IF ll # "ok" THEN 1 ELSE 0) + Cardinality({ n \in DOMAIN la : la[n] # "ok" })
    + (IF rl # "ok" THEN 1 ELSE 0) + Cardinality({ n \in DOMAIN ra : ra[n] # "ok" })

\* keys 'p' and 'f': diff_info = compare_directories(local_path, remote_path, ...)
KeyCompare(full) ==
    /\ pc = "idle"
    /\ \E local_path \in PanelPaths, remote_path \in PanelPaths, ll \in {"ok", "fail"},
          rl \in {"ok", "fail"} :
          /\ IsDir(lfs, Canon(local_path))
          /\ IsDir(rfs, Canon(remote_path))
          /\ \E local_entries \in list_local_dir(lfs, local_path, ll),
                remote_entries \in list_remote_dir(rfs, remote_path, rl) :
                LET common == FileNames(local_entries) \cap FileNames(remote_entries)
                IN  \E order \in Perms(common), la \in [common -> LocalSumAnswers],
                       ra \in [common -> RemoteSumAnswers] :
                       LET r == compare_directories(lfs, rfs, local_path, remote_path, "md5",
                                    full, local_entries, remote_entries, order, la, ra)
                       IN  /\ DiffFaults(ll, rl, la, ra) <= budget
                           /\ \A n \in common \ r.seen : la[n] = "ok" /\ ra[n] = "ok"
                           /\ budget' = budget - DiffFaults(ll, rl, la, ra)
                           /\ cmd_log' = LogAll(cmd_log, r.logs)
                           /\ pc' = IF r.exc = "none" THEN "done" ELSE "raised"
                           /\ diff_info' =
                                 IF r.exc # "none" THEN diff_info
                                 ELSE [ set |-> TRUE,
                                        only_local |-> r.only_local,
                                        only_remote |-> r.only_remote,
                                        different |-> r.different,
                                        same |-> r.same ]
                           /\ last' = [ kind |-> "diff", full |-> full,
                                        local_path |-> local_path,
                                        remote_path |-> remote_path,
                                        local_entries |-> local_entries,
                                        remote_entries |-> remote_entries,
                                        ll |-> ll, rl |-> rl,
                                        order |-> order, la |-> la, ra |-> ra,
                                        exc |-> r.exc ]
    /\ op' = [kind |-> "diff", dir |-> "none"]
    /\ UNCHANGED <<lfs, rfs, stack, hist>>

\* key 'p' (lines 663-664, 719-720)
KeyPartial == KeyCompare(FALSE)

\* key 'f' (lines 665-666, 721-722)
KeyFull == KeyCompare(TRUE)

\* Local trees of one content, remote trees of the same content, of one that
\* differs after the first megabytes and of one that differs within them.
InitDiff ==
    /\ lfs \in TreesOver({B0})
    /\ rfs \in TreesOver({B0, B1, B2})
    /\ budget = MaxFaults
    /\ Idle

NextDiff ==
    \/ KeyPartial
    \/ KeyFull

SpecDiff == InitDiff /\ [][NextDiff]_vars

-----------------------------------------------------------------------------
(* What the claims speak of.                                               *)

\* the last step was the copy of one file (the source was taken for a file)
FileCall == last.kind = "file"

\* the digests of the two files of the last call, as a healthy environment
\* computes them
SrcPartial == Digest("md5", last.srcNode, PARTIAL_MB * MiB)
DstPartial == Digest("md5", last.dstNode, PARTIAL_MB * MiB)
SrcFull == Digest("md5", last.srcNode, last.srcNode.size)
DstFull == Digest("md5", last.dstNode, last.dstNode.size)

\* every probe and checksum of the last call was answered
Healthy ==
    \A f \in {"stat", "exists", "size", "lp", "rp", "lf", "rf"} : last.ans[f] = "ok"

TransferLines(logs) == SelectSeq(logs, LAMBDA l : l.cmd \in {"PUT", "GET"})
SkipLines(logs) == SelectSeq(logs, LAMBDA l : l.cmd = "SKIP identical")

SourceIsLarge == last.srcNode.size > LARGE_FILE_MB * 1024 * 1024

\* C1: in both directions, for a source file larger than 10 MB and an
\* existing destination file whose checksums are all obtained: equal partial
\* and equal full checksums mean no transfer and a "SKIP identical: src ->
\* dst" line as the newest line of the log; a difference in the partial or in
\* the full checksums means exactly one transfer attempt and no skip.
C1_LargeFileSkipOrTransfer ==
    (FileCall /\ SourceIsLarge /\ last.dstNode.kind = "file" /\ Healthy) =>
        IF SrcPartial = DstPartial /\ SrcFull = DstFull
        THEN /\ last.out.decision = "skip"
             /\ TransferLines(last.logs) = <<>>
             /\ ~last.sent
             /\ last.logs[Len(last.logs)] = Line("SKIP identical", last.src, last.dst)
             /\ pc = "copy" => cmd_log[Len(cmd_log)] = last.logs[Len(last.logs)]
        ELSE /\ last.out.decision = "xfer"
             /\ Len(TransferLines(last.logs)) = 1
             /\ SkipLines(last.logs) = <<>>

\* a large file met an identical destination file and was skipped, remote to local
C1_Witness ==
    /\ FileCall /\ SourceIsLarge /\ last.dstNode.kind = "file" /\ Healthy
    /\ last.dir = "r2l"
    /\ last.dstNode = last.srcNode
    /\ last.out.decision = "skip"

\* C2: a skip happens only when all four checksums were available and equal
\* in pairs; when a checksum of the call is unavailable a transfer is
\* attempted and no skip is logged.
C2_SkipOnlyOnAvailableEqualChecksums ==
    (FileCall /\ last.out.decision # "raise") =>
        /\ last.out.decision = "skip" =>
              /\ Len(last.out.cks) = 4
              /\ \A i \in 1..4 : last.out.cks[i].val # None
              /\ last.out.cks[1].val = last.out.cks[2].val
              /\ last.out.cks[3].val = last.out.cks[4].val
        /\ (\E i \in 1..Len(last.out.cks) : last.out.cks[i].val = None) =>
              /\ last.out.decision = "xfer"
              /\ SkipLines(last.logs) = <<>>

\* the destination the copy looks for is missing: the remote path is no
\* regular file (local to remote), the local path is nothing (remote to local)
NothingThere ==
    IF last.dir = "l2r" THEN last.dstNode.kind # "file" ELSE last.dstNode.kind = "none"

NoChecksumWork ==
    /\ last.out.cks = <<>>
    /\ \A i \in 1..Len(last.logs) : last.logs[i].cmd \notin {"md5", "dd bs=1M count=5 | md5"}

-----------------------------------------------------------------------------
(* Walks and moves.                                                        *)

Running == op.kind \in {"copy", "move"}

\* the two sides of the running operation, now and when it started
SrcFs == IF op.dir = "l2r" THEN lfs ELSE rfs
DstFs == IF op.dir = "l2r" THEN rfs ELSE lfs
Src0 == IF op.dir = "l2r" THEN hist.lfs0 ELSE hist.rfs0

Events == hist.events
EventAt(i, kinds) == Events[i].ev \in kinds
Removals == {"remove", "rmtree", "stat"}
Decisions == {"xfer", "skip"}

\* an exception left the copy (it was not swallowed on the way up)
Propagated(i) == Events[i].ev = "raise" /\ ~Events[i].ok

SourceFiles == { c \in Below(TOP) : Src0[c].kind = "file" }
SourceSubdirs == { c \in Below(TOP) \ {TOP} : Src0[c].kind = "dir" }

\* C4: in a move, nothing of the source is removed before the copy has
\* returned; when the copy raises, the exception propagates and the source
\* is left as it was; when the copy returns, the removal of the source is
\* attempted, a file directly and a directory recursively, and a removal
\* that succeeds leaves nothing of the source.
C4_MoveRemovesOnlyAfterCopy ==
    op.kind = "move" =>
        /\ \A i \in 1..Len(Events) :
              EventAt(i, Removals) => i = Len(Events) /\ pc = "done"
        /\ pc # "done" => SrcFs = Src0
        /\ (\E i \in 1..Len(Events) : Propagated(i)) =>
              /\ pc = "raised"
              /\ SrcFs = Src0
              /\ ~\E j \in 1..Len(Events) : EventAt(j, Removals)
        /\ pc = "done" =>
              /\ Events # <<>> /\ EventAt(Len(Events), Removals)
              /\ Events[Len(Events)].ev = "remove" => Src0[TOP].kind = "file"
              /\ Events[Len(Events)].ev = "rmtree" => Src0[TOP].kind = "dir"
              /\ Events[Len(Events)].ok => \A c \in Below(TOP) : SrcFs[c] = NoNode

\* the copy of a move raised in a directory after one of its files had
\* been transferred
C4_Witness ==
    /\ op.kind = "move"
    /\ pc = "raised"
    /\ Src0[TOP].kind = "dir"
    /\ Cardinality(SourceFiles) >= 2
    /\ \E i \in 1..Len(Events) : Events[i].ev = "xfer" /\ Events[i].ok
    /\ SrcFs = Src0

\* C5 as claimed: a move in which a transfer failed does not delete the
\* source; after any move every source file is at the destination or still
\* at the source.
C5_AsClaimed ==
    (op.kind = "move" /\ pc = "done"
        /\ \E i \in 1..Len(Events) : Events[i].ev = "xfer" /\ ~Events[i].ok) =>
        /\ SrcFs = Src0
        /\ \A c \in SourceFiles : DstFs[c] = Src0[c] \/ SrcFs[c] = Src0[c]

\* nothing failed: every answer of the environment was the healthy one and
\* every transfer, listing and directory creation succeeded
NothingFailed ==
    /\ budget = MaxFaults
    /\ \A i \in 1..Len(Events) :
          EventAt(i, {"xfer", "mkdir", "list"}) => Events[i].ok
    /\ \A i \in 1..Len(Events) : ~EventAt(i, {"raise", "noent"})

\* C9 as claimed: when nothing fails, a finished copy leaves every file of
\* the source tree at its mirrored destination path with the source's
\* content, and every subdirectory of the source tree a directory there.
C9_AsClaimed ==
    (op.kind = "copy" /\ pc = "done" /\ NothingFailed) =>
        /\ \A c \in SourceFiles : DstFs[c] = Src0[c]
        /\ \A c \in SourceSubdirs : IsDir(DstFs, c)

\* C10: a transfer that raises is caught: the failure line is logged and
\* the copy goes on; and a walk that no exception left and in which every
\* entry and every listing could be read has decided on every file of the
\* source tree, whatever transfers failed.
C10_TransferFailureContinues ==
    /\ (FileCall /\ last.out.decision = "xfer" /\ ~last.sent) =>
          /\ pc # "raised"
          /\ last.logs[Len(last.logs)] = Fehler
          /\ last.logs[Len(last.logs) - 1].cmd \in {"PUT", "GET"}
          /\ pc = "copy" => cmd_log[Len(cmd_log)] = Fehler
    /\ (Running /\ (pc = "done" \/ CopyReturned)
          /\ \A i \in 1..Len(Events) :
                /\ ~EventAt(i, {"raise", "noent"})
                /\ EventAt(i, {"list"}) => Events[i].ok) =>
          SourceFiles = { Events[i].path : i \in { j \in 1..Len(Events) : EventAt(j, Decisions) } }

\* a transfer failed and an entry after it was still decided on
C10_Witness ==
    /\ Running
    /\ pc = "done"
    /\ \E i, j \in 1..Len(Events) :
          /\ i < j
          /\ Events[i].ev = "xfer" /\ ~Events[i].ok
          /\ EventAt(j, Decisions)

-----------------------------------------------------------------------------
(* remove_remote_dir_recursive, call by call.                              *)

\* The calls that can raise: sftp.listdir_attr and sftp.rmdir of a
\* directory, sftp.remove of a file.
FailPoints(fs) ==
    { <<c, "list">> : c \in { d \in U : IsDir(fs, d) } }
      \cup { <<c, "rm">> : c \in { d \in U : Exists(fs, d) } }

\* the names sftp.listdir_attr(path) yields, in the order it yields them
Listed(fs, path, order) == SelectSeq(order, LAMBDA n : Exists(fs, Canon(path) \o <<n>>))

RmResult(fs, tried, raised) == [fs |-> fs, tried |-> tried, raised |-> raised]

RECURSIVE RemoveDir(_, _, _, _, _)
RECURSIVE RemoveItems(_, _, _, _, _, _)

\* for item in sftp.listdir_attr(path): ...   (lines 397-404)
RemoveItems(fs, path, items, order, fails, tried) ==
    IF items = <<>> THEN RmResult(fs, tried, FALSE)
    ELSE LET fullp == RemoteJoin(path, Head(items))
             c == Canon(fullp)
         IN  IF IsDir(fs, c)
             THEN LET r == RemoveDir(fs, fullp, order, fails, tried)
                  IN  RemoveItems(r.fs, path, Tail(items), order, fails, r.tried)
             ELSE IF <<c, "rm">> \in fails
             THEN RmResult(fs, tried \cup {c}, TRUE)    \* raises: the loop is left
             ELSE RemoveItems([fs EXCEPT ![c] = NoNode], path, Tail(items), order, fails,
                              tried \cup {c})

\* remove_remote_dir_recursive(sftp, path): the listing, the loop, the rmdir,
\* all inside one try whose except clause passes; tried collects the paths
\* whose own removal was attempted
RemoveDir(fs, path, order, fails, tried) ==
    LET c == Canon(path)
    IN  IF <<c, "list">> \in fails THEN RmResult(fs, tried, FALSE)
        ELSE LET r == RemoveItems(fs, path, Listed(fs, path, order), order, fails, tried)
             IN  IF r.raised THEN RmResult(r.fs, r.tried, FALSE)
                 ELSE IF <<c, "rm">> \in fails \/ Children(r.fs, c) # {}
                 THEN RmResult(r.fs, r.tried \cup {c}, FALSE)
                 ELSE RmResult([r.fs EXCEPT ![c] = NoNode], r.tried \cup {c}, FALSE)

\* the sets of at most k elements of S
UpTo(S, k) == { F \in SUBSET S : Cardinality(F) <= k }

\* the call remove_remote_dir_recursive(sftp, "/a") that a delete or a move
\* of the remote directory makes
RemoveRemote ==
    /\ pc = "idle"
    /\ IsDir(rfs, TOP)
    /\ \E order \in Perms(Names), fails \in UpTo(FailPoints(rfs), budget) :
          LET r == RemoveDir(rfs, RemoteJoin(ROOT, "a"), order, fails, {})
          IN  /\ rfs' = r.fs
              /\ budget' = budget - Cardinality(fails)
              /\ last' = [kind |-> "rm", order |-> order, fails |-> fails, tried |-> r.tried]
    /\ pc' = "done"
    /\ op' = [kind |-> "rm", dir |-> "none"]
    /\ UNCHANGED <<lfs, stack, cmd_log, hist, diff_info>>

InitRm ==
    /\ lfs = NoFs
    /\ rfs \in TreesOver({B0})
    /\ budget = MaxFaults
    /\ Idle

NextRm == RemoveRemote

SpecRm == InitRm /\ [][NextRm]_vars

-----------------------------------------------------------------------------
(* The two partial checksums of one content, for any limit and chunk size. *)

\* sizes around the chunk sizes and the limits
SumSizes ==
    { 0, 1, DEFAULT_CHUNK_SIZE, MiB, 3 * MiB + 1, PARTIAL_MB * MiB, PARTIAL_MB * MiB + 1,
      (MaxPartialMb + 2) * MiB }

\* values of the parameter chunk_size
ChunkSizes == { 1, DEFAULT_CHUNK_SIZE, 100000, MiB, 3 * MiB }

\* the bytes "dd bs=1M count=partial_mb" passes on to the digest command
RemoteBytesRead(size, partial_mb) == Min(size, partial_mb * MiB)

\* compute_local_checksum(path, full=False, partial_mb, chunk_size) and
\* compute_remote_checksum(ssh, path, full=False, partial_mb) on "/a"
PartialPair ==
    /\ pc = "idle"
    /\ \E partial_mb \in 0..MaxPartialMb, chunk_size \in ChunkSizes :
          LET path == <<SEP, "a">>
              rem == compute_remote_checksum(rfs, path, "md5", FALSE, partial_mb, "ok")
          IN  /\ last' = [ kind |-> "sum", partial_mb |-> partial_mb, chunk_size |-> chunk_size,
                           size |-> Node(lfs, Canon(path)).size,
                           local_bytes |-> LocalBytesRead(Node(lfs, Canon(path)).size, FALSE,
                                                          partial_mb, chunk_size),
                           remote_bytes |-> RemoteBytesRead(Node(rfs, Canon(path)).size,
                                                            partial_mb),
                           csum_loc |-> compute_local_checksum(lfs, path, "md5", FALSE,
                                                               partial_mb, chunk_size, "ok"),
                           csum_rem |-> rem.val ]
              /\ cmd_log' = LogAll(cmd_log, rem.logs)
    /\ pc' = "done"
    /\ op' = [kind |-> "sum", dir |-> "none"]
    /\ UNCHANGED <<lfs, rfs, stack, budget, hist, diff_info>>

\* one file of any of the sizes, the same bytes on both sides
InitSum ==
    /\ \E s \in SumSizes : lfs = [NoFs EXCEPT ![TOP] = FileNode(s, 0, 0)]
    /\ rfs = lfs
    /\ budget = 0
    /\ Idle

NextSum == PartialPair

SpecSum == InitSum /\ [][NextSum]_vars

-----------------------------------------------------------------------------
(* The paths of the recursive calls of a copy, whatever the trees hold.    *)

\* os.path.abspath(...) and what change_directory_local makes of it
LocalRoots == { ROOT, <<SEP, "a">>, <<SEP, "a", SEP, "x">> }

\* INITIAL_REMOTE_PATH, with or without a trailing separator, and what
\* change_directory_remote makes of it
RemoteRoots == { ROOT, <<SEP, "a">>, <<SEP, "a", SEP>>, <<SEP, "a", SEP, "x">> }

\* main's call on the selected entry: src and dst built from the panel paths
PathStart ==
    /\ pc = "idle"
    /\ \E dir \in {"l2r", "r2l"}, local_root \in LocalRoots, remote_root \in RemoteRoots,
          name \in Names :
          /\ op' = OpCopy(dir)
          /\ last' = [ kind |-> "call", local_root |-> local_root, remote_root |-> remote_root,
                       names |-> <<name>>,
                       local |-> LocalJoin(local_root, name),
                       remote |-> RemoteJoin(remote_root, name) ]
    /\ pc' = "copy"
    /\ UNCHANGED <<lfs, rfs, stack, cmd_log, budget, hist, diff_info>>

\* the paths of the recursive call on the entry called name
ChildCall(call, name) ==
    [call EXCEPT !.names = Append(@, name),
                 !.local = LocalJoin(@, name),
                 !.remote = RemoteJoin(@, name)]

\* smart_copy_local_to_remote, lines 252-261
DescendL2R ==
    /\ pc = "copy"
    /\ op = OpCopy("l2r")
    /\ last.kind = "call"
    /\ Len(last.names) < MaxDepth
    /\ \E name \in Names : last' = ChildCall(last, name)
    /\ UNCHANGED <<pc, op, lfs, rfs, stack, cmd_log, budget, hist, diff_info>>

\* smart_copy_remote_to_local, lines 319-323
DescendR2L ==
    /\ pc = "copy"
    /\ op = OpCopy("r2l")
    /\ last.kind = "call"
    /\ Len(last.names) < MaxDepth
    /\ \E name \in Names : last' = ChildCall(last, name)
    /\ UNCHANGED <<pc, op, lfs, rfs, stack, cmd_log, budget, hist, diff_info>>

InitPath ==
    /\ lfs = NoFs
    /\ rfs = NoFs
    /\ budget = 0
    /\ Idle

NextPath ==
    \/ PathStart
    \/ DescendL2R
    \/ DescendR2L

SpecPath == InitPath /\ [][NextPath]_vars

-----------------------------------------------------------------------------
(* main's key loop: the panels, the selection and the calls the keys make. *)
(* While the loop runs, op holds main's variables local_path, remote_path, *)
(* local_sel, remote_sel and focus_panel.  A copy or a move is followed up *)
(* to its call; the walk the call starts is the one modelled above.        *)

\* the directory a path string resolves to: ".." steps to the parent
RECURSIVE ResolveFrom(_, _)
ResolveFrom(acc, names) ==
    IF names = <<>> THEN acc
    ELSE IF Head(names) = DotDot
         THEN ResolveFrom(IF acc = <<>> THEN acc ELSE Parent(acc), Tail(names))
         ELSE ResolveFrom(Append(acc, Head(names)), Tail(names))

Resolve(p) == ResolveFrom(<<>>, Canon(p))

\* the absolute path string of a canonical path
RECURSIVE PathOf(_)
PathOf(c) ==
    IF c = <<>> THEN ROOT
    ELSE IF Len(c) = 1 THEN <<SEP, c[1]>>
    ELSE PathOf(Parent(c)) \o <<SEP, c[Len(c)]>>

\* os.path.abspath
Abspath(p) == PathOf(Resolve(p))

\* os.path.dirname: up to the last separator, without trailing separators
\* unless there is nothing else
Dirname(p) ==
    LET seps == { i \in 1..Len(p) : p[i] = SEP }
        i == IF seps = {} THEN 0 ELSE CHOOSE k \in seps : \A j \in seps : j <= k
        head == SubSeq(p, 1, i)
    IN  IF RStrip(head) = <<>> THEN head ELSE RStrip(head)

change_directory_local(fs, current_path, target) ==
    IF target = DotDot THEN Dirname(Abspath(current_path))
    ELSE LET newpath == LocalJoin(current_path, target)
         IN  IF IsDir(fs, Resolve(newpath)) THEN Abspath(newpath) ELSE current_path

\* a in {"ok", "fail"}: whether sftp.stat raises IOError
change_directory_remote(fs, current_path, target, a) ==
    IF target = DotDot
    THEN IF current_path = ROOT THEN ROOT ELSE Dirname(RStrip(current_path))
    ELSE LET newpath == RemoteJoin(current_path, target)
         IN  IF a = "ok" /\ IsDir(fs, Resolve(newpath)) THEN newpath ELSE current_path

\* what a removal that stops early, or that works on a path through "..",
\* can leave: the directory itself, and below it any part of what was there
PartialBelow(fs, c) ==
    { g \in { [d \in U |-> IF d \in K THEN fs[d] ELSE NoNode] : K \in SUBSET U } :
        /\ WellFormed(g)
        /\ \A d \in U : ~(IsPrefix(c, d) /\ d # c) => g[d] = fs[d] }

HasDotDot(p) == \E i \in 1..Len(p) : p[i] = DotDot

\* a in {"ok", "fail"}: whether shutil.rmtree / os.remove meets an error of
\* the environment.  rmtree of a path through ".." empties the directory
\* the path resolves to, in whole or in part, and fails on the path itself.
delete_local_file_or_dir(fs, log, path, a) ==
    LET c == Resolve(path)
        cmd == Line("DEL LOCAL", path, <<>>)
        clean == a = "ok" /\ ~HasDotDot(path)
    IN  { [ fs |-> g,
            log |-> LogAll(log, IF clean THEN <<cmd>> ELSE <<cmd, Fehler>>) ] :
          g \in IF clean THEN { RemoveTree(fs, c) }
                ELSE IF IsDir(fs, c) THEN PartialBelow(fs, c)
                ELSE { fs } }

\* st, a in {"ok", "fail"}: whether sftp.stat raises, and whether a removal
\* does.  remove_remote_dir_recursive swallows what its calls raise.
delete_remote_file_or_dir(fs, log, path, st, a) ==
    LET c == Resolve(path)
        cmd == Line("DEL REMOTE", path, <<>>)
        clean == a = "ok" /\ ~HasDotDot(path)
    IN  IF st # "ok" THEN { [fs |-> fs, log |-> LogAll(log, <<cmd, Fehler>>)] }
        ELSE IF IsDir(fs, c)
        THEN { [fs |-> g, log |-> LogAll(log, <<cmd>>)] :
               g \in IF clean THEN { RemoveTree(fs, c) } ELSE PartialBelow(fs, c) }
        ELSE IF a = "ok" THEN { [fs |-> RemoveTree(fs, c), log |-> LogAll(log, <<cmd>>)] }
        ELSE { [fs |-> fs, log |-> LogAll(log, <<cmd, Fehler>>)] }

\* panel_height - 3, for the heights of the terminal
VisibleAreas == {1, 2}

\* if sel >= count: sel = max(0, count - 1)
Clamp(sel, count) == IF sel >= count THEN Max(0, count - 1) ELSE sel

\* entries[sel]; a negative index counts from the end
At(entries, sel) == IF sel < 0 THEN entries[Len(entries) + 1 + sel] ELSE entries[sel + 1]

Answers2 == {"ok", "fail"}

Cost(a) == IF a = "ok" THEN 0 ELSE 1

\* the head of one iteration of the loop: the two listings, their lengths
\* and the selections corrected to them
Shown ==
    UNION { { [ local_entries |-> le, remote_entries |-> re,
                local_count |-> Len(le), remote_count |-> Len(re),
                local_sel |-> Clamp(op.local_sel, Len(le)),
                remote_sel |-> Clamp(op.remote_sel, Len(re)),
                cost |-> Cost(w[1]) + Cost(w[2]) ] :
              le \in list_local_dir(lfs, op.local_path, w[1]),
              re \in list_remote_dir(rfs, op.remote_path, w[2]) } :
            w \in { v \in Answers2 \X Answers2 : Cost(v[1]) + Cost(v[2]) <= budget } }

\* main's variables after the head of the iteration
Seen(s) == [op EXCEPT !.local_sel = s.local_sel, !.remote_sel = s.remote_sel]

InLoop == pc = "idle" /\ op.kind = "keys"

NoCall == [kind |-> "key"]
Invoke(fn, name, src, dst) == [kind |-> "invoke", fn |-> fn, name |-> name, src |-> src, dst |-> dst]

\* a key that changes main's variables only
Moves(s, o) ==
    /\ op' = o
    /\ budget' = budget - s.cost
    /\ last' = NoCall
    /\ UNCHANGED <<pc, lfs, rfs, stack, cmd_log, hist, diff_info>>

KeyUp ==
    /\ InLoop
    /\ \E s \in Shown :
          Moves(s, IF op.focus_panel = 0
                   THEN [Seen(s) EXCEPT !.local_sel = IF @ > 0 THEN @ - 1 ELSE @]
                   ELSE [Seen(s) EXCEPT !.remote_sel = IF @ > 0 THEN @ - 1 ELSE @])

KeyDown ==
    /\ InLoop
    /\ \E s \in Shown :
          Moves(s, IF op.focus_panel = 0
                   THEN [Seen(s) EXCEPT !.local_sel = IF @ < s.local_count - 1 THEN @ + 1 ELSE @]
                   ELSE [Seen(s) EXCEPT !.remote_sel = IF @ < s.remote_count - 1 THEN @ + 1 ELSE @])

KeyPageUp ==
    /\ InLoop
    /\ \E s \in Shown, visible_area \in VisibleAreas :
          Moves(s, IF op.focus_panel = 0
                   THEN [Seen(s) EXCEPT !.local_sel = Max(0, @ - visible_area)]
                   ELSE [Seen(s) EXCEPT !.remote_sel = Max(0, @ - visible_area)])

KeyPageDown ==
    /\ InLoop
    /\ \E s \in Shown, visible_area \in VisibleAreas :
          Moves(s, IF op.focus_panel = 0
                   THEN [Seen(s) EXCEPT !.local_sel = Min(s.local_count - 1, @ + visible_area)]
                   ELSE [Seen(s) EXCEPT !.remote_sel = Min(s.remote_count - 1, @ + visible_area)])

KeyTab ==
    /\ InLoop
    /\ \E s \in Shown : Moves(s, [Seen(s) EXCEPT !.focus_panel = 1 - @])

KeyEnter ==
    /\ InLoop
    /\ \E s \in Shown, a \in Answers2 :
          /\ s.cost + Cost(a) <= budget
          /\ a = "fail" => op.focus_panel = 1 /\ s.remote_count > 0
          /\ LET o == Seen(s)
                 e == IF op.focus_panel = 0 THEN At(s.local_entries, o.local_sel)
                      ELSE At(s.remote_entries, o.remote_sel)
             IN  Moves([s EXCEPT !.cost = @ + Cost(a)],
                       IF op.focus_panel = 0
                       THEN IF s.local_count > 0 /\ e.is_dir
                            THEN [o EXCEPT !.local_path = change_directory_local(lfs, @, e.name),
                                           !.local_sel = 0]
                            ELSE o
                       ELSE IF s.remote_count > 0 /\ e.is_dir
                            THEN [o EXCEPT !.remote_path = change_directory_remote(rfs, @, e.name, a),
                                           !.remote_sel = 0]
                            ELSE o)

\* keys 'c' and 'v': the call on the selected entry, or nothing when the
\* panel is empty
Transfer(s, fnLocal, fnRemote) ==
    LET o == Seen(s)
        count == IF op.focus_panel = 0 THEN s.local_count ELSE s.remote_count
        name == IF op.focus_panel = 0 THEN At(s.local_entries, o.local_sel).name
                ELSE At(s.remote_entries, o.remote_sel).name
        local == LocalJoin(o.local_path, name)
        remote == RemoteJoin(o.remote_path, name)
    IN  /\ op' = o
        /\ budget' = budget - s.cost
        /\ IF count > 0
           THEN /\ pc' = "copy"
                /\ last' = IF op.focus_panel = 0 THEN Invoke(fnLocal, name, local, remote)
                           ELSE Invoke(fnRemote, name, remote, local)
           ELSE /\ pc' = pc
                /\ last' = NoCall
        /\ UNCHANGED <<lfs, rfs, stack, cmd_log, hist, diff_info>>

KeyC ==
    /\ InLoop
    /\ \E s \in Shown : Transfer(s, "copy_file_local_to_remote", "copy_file_remote_to_local")

KeyV ==
    /\ InLoop
    /\ \E s \in Shown : Transfer(s, "move_file_local_to_remote", "move_file_remote_to_local")

\* key 'x': the question, and on 'y' the removal of the selected entry
KeyX ==
    /\ InLoop
    /\ \E s \in Shown, confirm \in BOOLEAN, st \in Answers2, a \in Answers2 :
          LET o == Seen(s)
              count == IF op.focus_panel = 0 THEN s.local_count ELSE s.remote_count
              name == IF op.focus_panel = 0 THEN At(s.local_entries, o.local_sel).name
                      ELSE At(s.remote_entries, o.remote_sel).name
              src == IF op.focus_panel = 0 THEN LocalJoin(o.local_path, name)
                     ELSE RemoteJoin(o.remote_path, name)
              acts == count > 0 /\ confirm
          IN  /\ op' = o
              /\ s.cost + Cost(st) + Cost(a) <= budget
              /\ ~acts => st = "ok" /\ a = "ok"
              /\ acts => Len(hist.events) < MaxDeletes
              /\ op.focus_panel = 0 => st = "ok"
              /\ budget' = budget - (s.cost + Cost(st) + Cost(a))
              /\ IF ~acts
                 THEN /\ last' = NoCall
                      /\ UNCHANGED <<lfs, rfs, cmd_log, hist>>
                 ELSE IF op.focus_panel = 0
                 THEN /\ \E r \in delete_local_file_or_dir(lfs, cmd_log, src, a) :
                            lfs' = r.fs /\ cmd_log' = r.log
                      /\ last' = Invoke("delete_local_file_or_dir", name, src, None)
                      /\ hist' = [hist EXCEPT !.events = Append(@, src)]
                      /\ rfs' = rfs
                 ELSE /\ \E r \in delete_remote_file_or_dir(rfs, cmd_log, src, st, a) :
                            rfs' = r.fs /\ cmd_log' = r.log
                      /\ last' = Invoke("delete_remote_file_or_dir", name, src, None)
                      /\ hist' = [hist EXCEPT !.events = Append(@, src)]
                      /\ lfs' = lfs
              /\ UNCHANGED <<pc, stack, diff_info>>

\* main before the loop: both panels at "/", the first entries selected,
\* the local panel in focus
InitKeys ==
    /\ lfs \in { fs \in TreesOver({B0}) : IsDir(fs, TOP) }
    /\ rfs \in FlatTrees \cap TreesOver({B0})
    /\ budget = MaxFaults
    /\ pc = "idle"
    /\ op = [ kind |-> "keys", dir |-> "none", local_path |-> ROOT, remote_path |-> ROOT,
              local_sel |-> 0, remote_sel |-> 0, focus_panel |-> 0 ]
    /\ stack = <<>>
    /\ cmd_log = <<>>
    /\ last = NoLast
    /\ hist = [events |-> <<>>, lfs0 |-> lfs, rfs0 |-> rfs]
    /\ diff_info = NoDiff

NextKeys ==
    \/ KeyUp
    \/ KeyDown
    \/ KeyPageUp
    \/ KeyPageDown
    \/ KeyTab
    \/ KeyEnter
    \/ KeyC
    \/ KeyV
    \/ KeyX

SpecKeys == InitKeys /\ [][NextKeys]_vars

-----------------------------------------------------------------------------
(* compare_directories: C6, C7.                                            *)

Compared == pc = "done" /\ last.kind = "diff"

\* the file names of a listing: its non-directory entries other than '..'
ListedFiles(entries) ==
    { n \in Names \cup {DotDot} :
        \E i \in 1..Len(entries) :
            entries[i].name = n /\ ~entries[i].is_dir /\ n # DotDot }

LocalListed == ListedFiles(last.local_entries)
RemoteListed == ListedFiles(last.remote_entries)

\* C6: the four sets compare_directories returns are pairwise disjoint, their
\* union is the set of file names of either listing, only_local holds the
\* names listed locally and not remotely, only_remote those listed remotely
\* and not locally, and different and same together those listed on both
\* sides.
C6_ComparePartitions ==
    Compared =>
        /\ diff_info.only_local \cap diff_info.only_remote = {}
        /\ diff_info.only_local \cap diff_info.different = {}
        /\ diff_info.only_local \cap diff_info.same = {}
        /\ diff_info.only_remote \cap diff_info.different = {}
        /\ diff_info.only_remote \cap diff_info.same = {}
        /\ diff_info.different \cap diff_info.same = {}
        /\ diff_info.only_local \cup diff_info.only_remote
              \cup diff_info.different \cup diff_info.same
           = LocalListed \cup RemoteListed
        /\ diff_info.only_local = LocalListed \ RemoteListed
        /\ diff_info.only_remote = RemoteListed \ LocalListed
        /\ diff_info.different \cup diff_info.same = LocalListed \cap RemoteListed

\* a comparison with a name on one side only and a name on both
C6_Witness ==
    /\ Compared
    /\ diff_info.only_local # {}
    /\ diff_info.different \cup diff_info.same # {}

\* the two files a common name stands for
LocalFileOf(n) == Node(lfs, Canon(last.local_path) \o <<n>>)
RemoteFileOf(n) == Node(rfs, Canon(last.remote_path) \o <<n>>)

\* the bytes the comparison digests: all of them, or the first 5 MB
ScopeOf(node) == IF last.full THEN node.size ELSE 5 * 1024 * 1024

\* both checksums of the name were obtained
BothAvailable(n) == last.la[n] = "ok" /\ last.ra[n] = "ok"

\* the digested bytes of the two files are the same
SameBytes(n) ==
    Digest("md5", LocalFileOf(n), ScopeOf(LocalFileOf(n)))
        = Digest("md5", RemoteFileOf(n), ScopeOf(RemoteFileOf(n)))

\* C7: a name listed on both sides is in same exactly when both checksums
\* were obtained and are equal; otherwise (either checksum unavailable, or
\* the two unequal) it is in different.
C7_SameIffAvailableAndEqual ==
    Compared =>
        \A n \in LocalListed \cap RemoteListed :
            /\ n \in diff_info.same <=> (BothAvailable(n) /\ SameBytes(n))
            /\ n \in diff_info.different <=> ~(BothAvailable(n) /\ SameBytes(n))

\* one name is the same on both sides, another has neither checksum
C7_Witness ==
    /\ Compared
    /\ \E n \in diff_info.same, m \in diff_info.different :
          last.la[m] # "ok" /\ last.ra[m] # "ok"

-----------------------------------------------------------------------------
(* log_command: C8.                                                        *)

Appended == hist.events

\* the last n elements of a sequence
LastOf(s, n) == SubSeq(s, Len(s) - n + 1, Len(s))

\* C8: after any sequence of appends the log holds at most 5 entries, and
\* they are the most recently appended ones, in the order they were appended
\* (the oldest is evicted first).
C8_LogKeepsLastFive ==
    /\ Len(cmd_log) <= 5
    /\ cmd_log = LastOf(Appended, IF Len(Appended) < 5 THEN Len(Appended) ELSE 5)

\* more lines were appended than the log holds
C8_Witness ==
    /\ Len(Appended) > 5
    /\ Len(cmd_log) = 5
    /\ cmd_log[1] # Appended[1]

-----------------------------------------------------------------------------
(* What a copy logs: C11.                                                  *)

\* a line of the log names the path
Names_(path) == \E i \in 1..Len(cmd_log) : cmd_log[i].a = path \/ cmd_log[i].b = path

\* the last call of the copy created its destination directory
DirCreated == pc = "copy" /\ last.kind = "dir" /\ last.made

TransferLogged ==
    \E i \in 1..Len(cmd_log) :
        cmd_log[i] = Line(IF last.dir = "l2r" THEN "PUT" ELSE "GET", last.src, last.dst)

SkipLogged ==
    \E i \in 1..Len(cmd_log) : cmd_log[i] = Line("SKIP identical", last.src, last.dst)

\* C11 as claimed: every transfer attempt of a copy appends a PUT/GET line,
\* every skip a SKIP line, and every creation of a destination directory a
\* line of its own.
C11_AsClaimed ==
    /\ (FileCall /\ last.out.decision = "xfer") => TransferLogged
    /\ (FileCall /\ last.out.decision = "skip") => SkipLogged
    /\ DirCreated => Names_(last.dst)

\* C11, amended: every transfer attempt of a copy appends a PUT/GET line
\* and every skip a SKIP identical line, each naming source and destination;
\* the creation of a destination directory appends no line.
C11_TransfersAndSkipsLogged ==
    /\ (FileCall /\ last.out.decision = "xfer") => TransferLogged
    /\ (FileCall /\ last.out.decision = "skip") => SkipLogged
    /\ DirCreated => ~Names_(last.dst)

\* a file was transferred in a walk that had created a directory
C11_Witness ==
    /\ FileCall
    /\ last.out.decision = "xfer"
    /\ TransferLogged
    /\ \E i \in 1..Len(Events) : Events[i].ev = "mkdir" /\ Events[i].ok
    /\ Len(last.src) > 2

-----------------------------------------------------------------------------
(* remove_remote_dir_recursive: C12.                                       *)

Removed == pc = "done" /\ last.kind = "rm"

\* the tree the removal started from
Rm0 == hist.rfs0

\* the removal of the entry itself can succeed: of a file, sftp.remove does
\* not fail; of a directory, neither its listing nor its rmdir fails and
\* the removal of everything in it can succeed
RECURSIVE CanBeRemoved(_)
CanBeRemoved(c) ==
    IF IsFile(Rm0, c) THEN <<c, "rm">> \notin last.fails
    ELSE /\ <<c, "list">> \notin last.fails
         /\ <<c, "rm">> \notin last.fails
         /\ \A n \in Children(Rm0, c) : CanBeRemoved(c \o <<n>>)

\* every directory above the entry could be listed
AncestorsListed(c) ==
    \A d \in U : (IsPrefix(d, c) /\ d # c) => <<d, "list">> \notin last.fails

\* C12 as claimed: when the removal of one child of a directory fails, the
\* removal goes on: every other child of that directory is still attempted,
\* and after the call every child whose own removal can succeed is gone.
C12_AsClaimed ==
    Removed =>
        \A c \in U \ {TOP} :
            (Exists(Rm0, c) /\ AncestorsListed(c)) =>
                /\ IsFile(Rm0, c) => c \in last.tried
                /\ CanBeRemoved(c) => ~Exists(rfs, c)

-----------------------------------------------------------------------------
(* list_local_dir, list_remote_dir: C13.                                   *)

\* the name without regard to case, and the alphabet
Folded(n) == IF n = "Y" THEN "y" ELSE IF n = "x" THEN "x" ELSE "a"
Alphabet == <<"a", "x", "y">>
FoldedLeq(n, m) ==
    \E i, j \in 1..Len(Alphabet) : i <= j /\ Alphabet[i] = Folded(n) /\ Alphabet[j] = Folded(m)

\* the listing L of path in fs, obtained under answer a, is as C13 says
ListingAsClaimed(L, fs, path, a) ==
    IF a # "ok"
    THEN L = <<>>
    ELSE LET real == { i \in 1..Len(L) : L[i].name # ".." }
         IN  /\ \A i, j \in 1..Len(L) : i < j => ~(~L[i].is_dir /\ L[j].is_dir)
             /\ \A i, j \in real :
                   (i < j /\ L[i].is_dir = L[j].is_dir) => FoldedLeq(L[i].name, L[j].name)
             /\ (L # <<>> /\ L[1] = [name |-> "..", is_dir |-> TRUE]) <=> path \notin {<<"/">>, <<>>}
             /\ \A i \in real : i > 1 \/ path \in {<<"/">>, <<>>}
             /\ \A i, j \in real : i # j => L[i].name # L[j].name
             /\ { L[i] : i \in real }
                  = { [name |-> n, is_dir |-> IsDir(fs, Canon(path) \o <<n>>)] :
                        n \in { m \in Names : Exists(fs, Canon(path) \o <<m>>) } }

\* C13: in every listing all directory entries precede all file entries,
\* within each group the names are in non-decreasing case-insensitive order,
\* and a synthetic ('..', directory) entry is the first element exactly when
\* the listed path is not the root; on an access error the listing is the
\* empty sequence (nothing is raised).
C13_ListingOrder ==
    last.kind = "diff" =>
        /\ ListingAsClaimed(last.local_entries, lfs, last.local_path, last.ll)
        /\ ListingAsClaimed(last.remote_entries, rfs, last.remote_path, last.rl)

\* a listing of two directories, or of two files, whose names sort one way
\* with regard to case and the other way without, next to a listing that
\* failed
C13_Witness ==
    /\ last.kind = "diff"
    /\ Len(last.local_entries) = 3
    /\ last.local_entries[2].name = "x"
    /\ last.local_entries[3].name = "Y"
    /\ last.local_entries[2].is_dir = last.local_entries[3].is_dir
    /\ last.rl # "ok"
    /\ last.remote_entries = <<>>

-----------------------------------------------------------------------------
(* The order of the checksum work of one file copy: C14.                   *)

Cks == last.out.cks

Available(i) == Cks[i].val # None

\* C14: a full checksum is computed only after both partial checksums of
\* the file were computed, available and equal; no checksum is computed
\* when nothing exists at the destination or the source is at most 10 MB;
\* the two checksums of a comparison are of opposite sides, of the same
\* scope and of the same algorithm.
C14_TwoPhaseChecksums ==
    FileCall =>
        /\ \A i \in 1..Len(Cks) :
              Cks[i].scope = "full" =>
                  /\ i > 2
                  /\ Cks[1].scope = "partial" /\ Cks[2].scope = "partial"
                  /\ Cks[1].side # Cks[2].side
                  /\ Available(1) /\ Available(2)
                  /\ Cks[1].val = Cks[2].val
        /\ (last.dstNode.kind = "none" \/ ~SourceIsLarge) => NoChecksumWork
        /\ \A i \in 1..Len(Cks) :
              (i % 2 = 1 /\ i < Len(Cks)) =>
                  /\ Cks[i].scope = Cks[i + 1].scope
                  /\ Cks[i].side # Cks[i + 1].side
                  /\ (Available(i) /\ Available(i + 1)) => Cks[i].val[1] = Cks[i + 1].val[1]
        /\ \A i \in 1..Len(last.logs) :
              /\ last.logs[i].cmd = "md5" =>
                    \E k \in 1..Len(Cks) : Cks[k].scope = "full" \/ last.out.decision = "raise"
              /\ last.logs[i].cmd \notin {"sha1", "sha256"}

\* the partial checksums agreed, the full ones were computed and differ
C14_Witness ==
    /\ FileCall
    /\ Len(Cks) = 4
    /\ \A i \in 1..4 : Available(i)
    /\ Cks[3].val # Cks[4].val
    /\ last.out.decision = "xfer"

-----------------------------------------------------------------------------
(* Partial scope on both sides: C15.                                       *)

Summed == pc = "done" /\ last.kind = "sum"

\* the first min(file size, partial_mb * 1024 * 1024) bytes
PrefixBytes == IF last.size < last.partial_mb * 1024 * 1024
               THEN last.size ELSE last.partial_mb * 1024 * 1024

\* C15 as claimed: for every file size, limit partial_mb and chunk size,
\* compute_local_checksum in partial scope digests exactly the first
\* min(file size, partial_mb * 1024 * 1024) bytes, the prefix the remote
\* command digests, so equal content yields equal partial checksums
\* (stated here for limits of at least 1 MB only).
C15_AsClaimed ==
    (Summed /\ last.partial_mb >= 1) =>
        /\ last.local_bytes = PrefixBytes
        /\ last.remote_bytes = PrefixBytes
        /\ (lfs = rfs) => last.csum_loc = last.csum_rem

-----------------------------------------------------------------------------
(* Mirrored paths: C16.                                                    *)

InCall == last.kind = "call"

\* the name segments of a path string
Segments(p) == SelectSeq(p, LAMBDA t : t # "/")

\* absolute, the separators single, none at the end
WellSeparated(p) ==
    /\ p # <<>>
    /\ p[1] = "/"
    /\ p[Len(p)] # "/"
    /\ \A i \in 1..(Len(p) - 1) : ~(p[i] = "/" /\ p[i + 1] = "/")

\* C16: in every call of a copy started on (srcRoot, dstRoot) the name
\* segments of the destination path relative to dstRoot are those of the
\* source path relative to srcRoot; the remote path is absolute with single
\* separators, also below a remote root that is "/" or ends with "/"; and
\* the path of one side is never the other side's path string.
C16_MirroredPaths ==
    InCall =>
        /\ Segments(last.local) = Segments(last.local_root) \o last.names
        /\ Segments(last.remote) = Segments(last.remote_root) \o last.names
        /\ WellSeparated(last.remote)
        /\ Segments(last.local_root) # Segments(last.remote_root) => last.local # last.remote

\* a call three entries below a remote root that ends with a separator,
\* the local root being another directory
C16_Witness ==
    /\ InCall
    /\ Len(last.names) = 3
    /\ last.remote_root = <<"/", "a", "/">>
    /\ last.local_root = <<"/">>
    /\ WellSeparated(last.remote)

-----------------------------------------------------------------------------
(* The parent entry and the mutating keys: C17.                            *)

Invoked == last.kind = "invoke"

\* C17, as the claim words it: whatever keys are pressed, copy, move and
\* delete are invoked on a real entry of the current directory only, never
\* on the synthetic ".." entry, i.e. never on the path "<current>/..".
C17_AsClaimed ==
    Invoked => last.name # ".." /\ ~HasDotDot(last.src)

====
